---- MODULE Spec2Model ----
(***************************************************************************)
(* Model of the bookkeeping core: the account commands of                  *)
(* src-tauri/src/commands/accounts.rs working on the SQLite store created  *)
(* by init_db_connection, and the migration engine of src-tauri/src/db.rs. *)
(*                                                                         *)
(* The store is modelled by what SQLite does with the DDL of               *)
(* init_db_connection: rowid order, AUTOINCREMENT ids, the UNIQUE, CHECK   *)
(* and FOREIGN KEY constraints (PRAGMA foreign_keys = ON), statement       *)
(* atomicity.  The storage engine is taken to be reliable: a statement     *)
(* fails only by violating a constraint, never by an I/O fault.            *)
(***************************************************************************)
EXTENDS Integers, Sequences, FiniteSets, TLC

(* ---------------- bounds and input sets ---------------- *)

\* the store holds at most this many rows, accounts and transactions together
MaxRows == 3

\* Option<T>: None is the empty tuple, Some(x) the one-element tuple
None == <<>>
Some(x) == <<x>>

\* Result<T, String>
Ok(v) == [ok |-> v]
Err(m) == [err |-> m]
IsOk(r) == "ok" \in DOMAIN r
IsErr(r) == "err" \in DOMAIN r

\* account names the callers pass ("Cash" and "cash" differ only in case)
Names == {"Cash", "cash", "Bank"}
\* account types the callers pass; "asset" is outside the closed set
TypeInputs == {"Asset", "asset"}
\* ids the callers pass: every id an account can get (names are unique, so
\* there are at most as many accounts as names) and one that names no account
IdInputs == 1 .. (Cardinality(Names) + 1)
ParentInputs == {None} \cup {Some(i) : i \in IdInputs}

(* ---------------- the store ---------------- *)

VARIABLES
  accounts,      \* table accounts: sequence of rows in rowid order
  transactions,  \* table transactions: sequence of rows in rowid order
  call,          \* name of the last operation that ran
  ret            \* what the last operation returned

storeVars == <<accounts, transactions, call, ret>>

\* the database file of the migration engine (db.rs) and one process running it
VARIABLES
  db,               \* committed content of the file: [user_version, schema]
  tx,               \* None, or Some(content as the open transaction sees it)
  mpc,              \* where run_migrations stands
  current_version,  \* the local of run_migrations
  mi,               \* index of the migration the loop is at (1-based)
  mj,               \* statements of that migration's batch already executed
  mret,             \* what run_migrations returned
  runs,             \* number of runs started
  executed,         \* history: migrations whose batch this run executed completely
  wrote,            \* history: this run executed PRAGMA user_version = n
  fault,            \* history: a batch of this run returned an error
  start,            \* history: db when this run started
  prev              \* history: how the previous run ended and what it executed

migVars == <<db, tx, mpc, current_version, mi, mj, mret, runs, executed, wrote,
             fault, start, prev>>

\* the build and the process
VARIABLES
  mlist,            \* the array migrations of run_migrations, fixed by the build
  proc              \* main: "start", "running" (commands are served) or "exited"

\* the managed state DbState { conn: Mutex<Connection> } and the handlers
\* running on the runtime's threads
VARIABLES
  lock,             \* the thread holding the MutexGuard, 0 when the mutex is free
  poisoned,         \* the mutex's poison flag
  rpc,              \* per thread: "idle", "called", "locked", "checked", "returned"
  req,              \* per thread: the command and its arguments
  rret              \* per thread: the Result returned to the caller

lockVars == <<lock, poisoned, rpc, req, rret>>

sysVars == <<mlist, proc, lockVars>>

\* variant: the comparison of the type ignores case
valid_types_nocase == {"Asset", "Liability", "Equity", "Income", "Expense", "asset"}

\* let valid_types = ["Asset", "Liability", "Equity", "Income", "Expense"];
valid_types == {"Asset", "Liability", "Equity", "Income", "Expense"}

\* error texts of the SQLite engine for the constraints of the DDL
UniqueFailed == "UNIQUE constraint failed: accounts.name"
ForeignKeyFailed == "FOREIGN KEY constraint failed"
CheckFailed == "CHECK constraint failed"

\* bool -> INTEGER as rusqlite binds it, and the read in get_accounts
ToSqlBool(b) == IF b THEN 1 ELSE 0

Range(s) == {s[i] : i \in 1 .. Len(s)}

\* variant: the parent lookup is skipped
ParentExists_skipped(acc, pid) == TRUE

\* SELECT EXISTS(SELECT 1 FROM accounts WHERE id = ?)
ParentExists(acc, pid) == \E i \in 1 .. Len(acc) : acc[i].id = pid

\* variant: the name lookup is skipped
NameExists_skipped(acc, name) == FALSE

\* SELECT EXISTS(SELECT 1 FROM accounts WHERE name = ?)   (BINARY collation)
NameExists(acc, name) == \E i \in 1 .. Len(acc) : acc[i].name = name

\* variant: only the credit side is looked up
has_transactions_credit_only(txs, id) ==
  \E i \in 1 .. Len(txs) : txs[i].credit_account_id = id

\* variant: only the debit side is looked up
has_transactions_debit_only(txs, id) ==
  \E i \in 1 .. Len(txs) : txs[i].debit_account_id = id

\* SELECT EXISTS(SELECT 1 FROM transactions WHERE debit_account_id = ? OR credit_account_id = ?)
has_transactions(txs, id) ==
  \E i \in 1 .. Len(txs) : txs[i].debit_account_id = id \/ txs[i].credit_account_id = id

\* INTEGER PRIMARY KEY AUTOINCREMENT: one more than the largest rowid ever used
\* (no row is ever deleted, so that is the largest rowid present)
NextRowId(tbl) == IF Len(tbl) = 0 THEN 1 ELSE tbl[Len(tbl)].id + 1

\* variant: column name without UNIQUE (and without the unique index)
AccountsConstraint_no_unique(acc, k, row) ==
  IF row.type \notin {"Asset", "Liability", "Equity", "Income", "Expense"} THEN CheckFailed
  ELSE IF row.parent_id # None
          /\ ~ (\/ row.parent_id[1] = row.id
                \/ \E i \in 1 .. Len(acc) : acc[i].id = row.parent_id[1])
       THEN ForeignKeyFailed
  ELSE ""

\* variant: foreign keys are not enforced (PRAGMA foreign_keys left OFF)
AccountsConstraint_no_fk(acc, k, row) ==
  IF row.type \notin {"Asset", "Liability", "Equity", "Income", "Expense"} THEN CheckFailed
  ELSE IF \E i \in 1 .. Len(acc) : i # k /\ acc[i].name = row.name THEN UniqueFailed
  ELSE ""

\* the constraints of table accounts on a row that is to be stored at position k
\* (k = Len(acc) + 1 for an insert); returns the engine's error text or "" when
\* the row is accepted.  CHECK and UNIQUE are raised while the row is written,
\* the foreign key when the statement ends.
AccountsConstraint(acc, k, row) ==
  IF row.type \notin valid_types THEN CheckFailed
  ELSE IF \E i \in 1 .. Len(acc) : i # k /\ acc[i].name = row.name THEN UniqueFailed
  ELSE IF row.parent_id # None
          /\ ~ (\/ row.parent_id[1] = row.id
                \/ \E i \in 1 .. Len(acc) : acc[i].id = row.parent_id[1])
       THEN ForeignKeyFailed
  ELSE ""

\* INSERT INTO accounts (name, type, parent_id, balance, is_active) VALUES (?, ?, ?, 0.0, 1)
\* balance 0 stands for the REAL 0.0
InsertAccount(acc, name, account_type, parent_id) ==
  LET row == [id |-> NextRowId(acc), name |-> name, type |-> account_type,
              parent_id |-> parent_id, balance |-> 0, is_active |-> 1]
      e == AccountsConstraint(acc, Len(acc) + 1, row)
  IN IF e # "" THEN [ret |-> Err(e), accounts |-> acc]
     ELSE [ret |-> Ok(row.id), accounts |-> Append(acc, row)]

\* variant: the UPDATE leaves parent_id out of its SET list
UpdateAccountRow_keeps_parent(acc, id, name, account_type, parent_id, is_active) ==
  IF ~ \E k \in 1 .. Len(acc) : acc[k].id = id
  THEN [ret |-> Ok(0), accounts |-> acc]
  ELSE LET k == CHOOSE j \in 1 .. Len(acc) : acc[j].id = id
           row == [acc[k] EXCEPT !.name = name, !.type = account_type,
                                 !.is_active = (IF is_active THEN 1 ELSE 0)]
       IN IF \E i \in 1 .. Len(acc) : i # k /\ acc[i].name = name
          THEN [ret |-> Err(UniqueFailed), accounts |-> acc]
          ELSE [ret |-> Ok(1), accounts |-> [acc EXCEPT ![k] = row]]

\* variant: an UPDATE that changes no row is reported as an error
UpdateAccountRow_missing_is_error(acc, id, name, account_type, parent_id, is_active) ==
  IF ~ \E k \in 1 .. Len(acc) : acc[k].id = id
  THEN [ret |-> Err("Query returned no rows"), accounts |-> acc]
  ELSE LET k == CHOOSE j \in 1 .. Len(acc) : acc[j].id = id
           row == [acc[k] EXCEPT !.name = name, !.type = account_type,
                                 !.parent_id = parent_id,
                                 !.is_active = (IF is_active THEN 1 ELSE 0)]
       IN IF \E i \in 1 .. Len(acc) : i # k /\ acc[i].name = name
          THEN [ret |-> Err(UniqueFailed), accounts |-> acc]
          ELSE IF parent_id # None /\ ~ \E i \in 1 .. Len(acc) : acc[i].id = parent_id[1]
          THEN [ret |-> Err(ForeignKeyFailed), accounts |-> acc]
          ELSE [ret |-> Ok(1), accounts |-> [acc EXCEPT ![k] = row]]

\* UPDATE accounts SET name = ?, type = ?, parent_id = ?, is_active = ? WHERE id = ?
\* returns the number of rows changed
UpdateAccountRow(acc, id, name, account_type, parent_id, is_active) ==
  IF ~ \E k \in 1 .. Len(acc) : acc[k].id = id
  THEN [ret |-> Ok(0), accounts |-> acc]
  ELSE LET k == CHOOSE j \in 1 .. Len(acc) : acc[j].id = id
           row == [acc[k] EXCEPT !.name = name, !.type = account_type,
                                 !.parent_id = parent_id,
                                 !.is_active = ToSqlBool(is_active)]
           e == AccountsConstraint(acc, k, row)
       IN IF e # "" THEN [ret |-> Err(e), accounts |-> acc]
          ELSE [ret |-> Ok(1), accounts |-> [acc EXCEPT ![k] = row]]

(* ---------------- the commands ---------------- *)

create_account(acc, name, account_type, parent_id) ==
  IF account_type \notin valid_types
  THEN [ret |-> Err("Invalid account type: " \o account_type
                    \o ". Must be one of: Asset, Liability, Equity, Income, Expense"),
        accounts |-> acc]
  ELSE IF parent_id # None /\ ~ ParentExists(acc, parent_id[1])
  THEN [ret |-> Err("Parent account does not exist"), accounts |-> acc]
  ELSE IF NameExists(acc, name)
  THEN [ret |-> Err("An account with this name already exists"), accounts |-> acc]
  ELSE LET r == InsertAccount(acc, name, account_type, parent_id)
       IN IF IsOk(r.ret) THEN r
          ELSE [ret |-> Err("Failed to create account: " \o r.ret.err), accounts |-> acc]

\* variant: is_active is read with the comparison inverted
get_accounts_inverted_active(acc) ==
  [i \in 1 .. Len(acc) |->
     [id |-> Some(acc[i].id), name |-> acc[i].name, account_type |-> acc[i].type,
      parent_id |-> acc[i].parent_id, balance |-> acc[i].balance,
      is_active |-> (acc[i].is_active = 0)]]

\* one Account per row, in the order of the table scan;
\* is_active: row.get(5).unwrap_or(1) == 1
get_accounts(acc) ==
  [i \in 1 .. Len(acc) |->
     [id |-> Some(acc[i].id), name |-> acc[i].name, account_type |-> acc[i].type,
      parent_id |-> acc[i].parent_id, balance |-> acc[i].balance,
      is_active |-> (acc[i].is_active = 1)]]

update_account(acc, txs, id, name, account_type, parent_id, is_active) ==
  IF account_type \notin valid_types
  THEN [ret |-> Err("Invalid account type"), accounts |-> acc]
  ELSE IF has_transactions(txs, id) /\ ~ is_active
  THEN [ret |-> Err("Cannot deactivate account with transaction history"), accounts |-> acc]
  ELSE UpdateAccountRow(acc, id, name, account_type, parent_id, is_active)

\* variant: table transactions without CHECK (debit_account_id != credit_account_id)
InsertTransaction_no_check(acc, txs, debit, credit) ==
  IF ~ (\E i \in 1 .. Len(acc) : acc[i].id = debit)
     \/ ~ (\E i \in 1 .. Len(acc) : acc[i].id = credit)
  THEN [ret |-> Err(ForeignKeyFailed), transactions |-> txs]
  ELSE [ret |-> Ok(IF Len(txs) = 0 THEN 1 ELSE txs[Len(txs)].id + 1),
        transactions |-> Append(txs, [id |-> IF Len(txs) = 0 THEN 1 ELSE txs[Len(txs)].id + 1,
                                      debit_account_id |-> debit,
                                      credit_account_id |-> credit])]

\* INSERT INTO transactions (...): the store's constraints on a new transaction
\* (date, amount and description play no part in any constraint between tables)
InsertTransaction(acc, txs, debit, credit) ==
  IF debit = credit THEN [ret |-> Err(CheckFailed), transactions |-> txs]
  ELSE IF ~ ParentExists(acc, debit) \/ ~ ParentExists(acc, credit)
  THEN [ret |-> Err(ForeignKeyFailed), transactions |-> txs]
  ELSE [ret |-> Ok(NextRowId(txs)),
        transactions |-> Append(txs, [id |-> NextRowId(txs), debit_account_id |-> debit,
                                      credit_account_id |-> credit])]

(* ---------------- actions ---------------- *)

\* no command is running: the shell has taken the last result
Idle == [op |-> "idle"]
NoResult == [none |-> TRUE]

StoreInit ==
  /\ accounts = <<>>
  /\ transactions = <<>>
  /\ call = Idle
  /\ ret = NoResult

CreateAccount ==
  /\ call = Idle
  /\ \E name \in Names, account_type \in TypeInputs, parent_id \in ParentInputs :
       LET r == create_account(accounts, name, account_type, parent_id)
       IN /\ Len(r.accounts) + Len(transactions) <= MaxRows
          /\ accounts' = r.accounts
          /\ ret' = r.ret
          /\ call' = [op |-> "create_account", name |-> name,
                      account_type |-> account_type, parent_id |-> parent_id]
          /\ UNCHANGED <<transactions, migVars, sysVars>>

GetAccounts ==
  /\ call = Idle
  /\ ret' = [list |-> get_accounts(accounts)]
  /\ call' = [op |-> "get_accounts"]
  /\ UNCHANGED <<accounts, transactions, migVars, sysVars>>

UpdateAccount ==
  /\ call = Idle
  /\ \E id \in IdInputs, name \in Names, account_type \in TypeInputs,
        parent_id \in ParentInputs, is_active \in BOOLEAN :
       LET r == update_account(accounts, transactions, id, name, account_type,
                               parent_id, is_active)
       IN /\ accounts' = r.accounts
          /\ ret' = r.ret
          /\ call' = [op |-> "update_account", id |-> id, name |-> name,
                      account_type |-> account_type, parent_id |-> parent_id,
                      is_active |-> is_active]
          /\ UNCHANGED <<transactions, migVars, sysVars>>

\* a transaction is inserted into the store by some other component
AddTransaction ==
  /\ call = Idle
  /\ \E debit \in IdInputs, credit \in IdInputs :
       LET r == InsertTransaction(accounts, transactions, debit, credit)
       IN /\ Len(accounts) + Len(r.transactions) <= MaxRows
          /\ transactions' = r.transactions
          /\ ret' = r.ret
          /\ call' = [op |-> "insert_transaction", debit |-> debit, credit |-> credit]
          /\ UNCHANGED <<accounts, migVars, sysVars>>

\* the command's Result goes back to the shell, which may issue the next request
Return ==
  /\ call # Idle
  /\ call' = Idle
  /\ ret' = NoResult
  /\ UNCHANGED <<accounts, transactions, migVars, sysVars>>

(* ---------------- the migration engine (db.rs) ---------------- *)

\* at most this many runs of the engine on the same file
MaxRuns == 2

\* let migrations = [include_str!(".../2025_09_10_initial_schema.sql")]: one script;
\* its statements create the tables that test_init_db expects, one table each
migrations == << <<"accounts", "transactions", "transaction_entries">> >>

Min(a, b) == IF a < b THEN a ELSE b

TablesUpTo(v) == UNION {Range(migrations[m]) : m \in 1 .. Min(v, Len(migrations))}

\* a file at schema version v: fresh (0), migrated, or written by a newer build
DbAtVersion(v) ==
  [user_version |-> v,
   schema |-> TablesUpTo(v) \cup (IF v > Len(migrations) THEN {"newer_build"} ELSE {})]

InitVersions == 0 .. (Len(migrations) + 1)

NoRun == [status |-> "none", executed |-> <<>>]

MigInit ==
  /\ db \in {DbAtVersion(v) : v \in InitVersions}
  /\ tx = None
  /\ mpc = "exited"
  /\ current_version = 0
  /\ mi = 1
  /\ mj = 0
  /\ mret = NoResult
  /\ runs = 0
  /\ executed = <<>>
  /\ wrote = FALSE
  /\ fault = FALSE
  /\ start = db
  /\ prev = NoRun

\* how the run that stands at mpc ended
RunStatus ==
  IF runs = 0 THEN "none"
  ELSE IF mpc = "exited" /\ IsOk(mret) THEN "ok"
  ELSE IF mpc = "exited" /\ IsErr(mret) THEN "err"
  ELSE "crash"

\* init_db: open the file and call run_migrations
init_db ==
  /\ mpc \in {"exited", "crashed"}
  /\ runs < MaxRuns
  /\ runs' = runs + 1
  /\ prev' = [status |-> RunStatus, executed |-> executed]
  /\ mpc' = "read_version"
  /\ mret' = NoResult
  /\ executed' = <<>>
  /\ wrote' = FALSE
  /\ fault' = FALSE
  /\ start' = db
  /\ mi' = 1
  /\ mj' = 0
  /\ current_version' = 0
  /\ UNCHANGED <<db, tx, storeVars, sysVars>>

\* variant: the version test is an inequality with the version of this build
NeedsMigration_not_equal(v) == v # 1

\* variant: the version test is off by one
NeedsMigration_off_by_one(v) == v <= 1

\* if current_version < 1
NeedsMigration(v) == v < 1

\* let current_version = conn.query_row("PRAGMA user_version", ...).unwrap_or(0);
\* if current_version < 1 { ... } Ok(())
ReadVersion ==
  /\ mpc = "read_version"
  /\ current_version' = db.user_version
  /\ IF NeedsMigration(db.user_version)
     THEN mpc' = "begin" /\ mret' = mret
     ELSE mpc' = "exited" /\ mret' = Ok(0)
  /\ UNCHANGED <<db, tx, mi, mj, runs, executed, wrote, fault, start, prev, storeVars, sysVars>>

\* let tx = conn.transaction()?;
BeginTransaction ==
  /\ mpc = "begin"
  /\ tx' = Some(db)
  /\ mpc' = "loop"
  /\ UNCHANGED <<db, current_version, mi, mj, mret, runs, executed, wrote, fault,
                 start, prev, storeVars, sysVars>>

\* for (i, migration) in migrations.iter().enumerate(): the next statement of
\* tx.execute_batch(migration) succeeds and creates its table
ExecuteStatement ==
  /\ mpc = "loop"
  /\ mi <= Len(mlist)
  /\ mj < Len(mlist[mi])
  /\ tx' = Some([tx[1] EXCEPT !.schema = @ \cup {mlist[mi][mj + 1]}])
  /\ IF mj + 1 = Len(mlist[mi])
     THEN mi' = mi + 1 /\ mj' = 0 /\ executed' = Append(executed, mi)
     ELSE mi' = mi /\ mj' = mj + 1 /\ executed' = executed
  /\ UNCHANGED <<db, mpc, current_version, mret, runs, wrote, fault, start, prev,
                 storeVars, sysVars>>

\* a statement of the batch fails: execute_batch returns Err(e), the statements
\* of the batch before it stay executed in the transaction
StatementFails ==
  /\ mpc = "loop"
  /\ mi <= Len(mlist)
  /\ mj < Len(mlist[mi])
  /\ fault' = TRUE
  /\ mpc' = "batch_failed"
  /\ UNCHANGED <<db, tx, current_version, mi, mj, mret, runs, executed, wrote, start,
                 prev, storeVars, sysVars>>

\* variant: the statements run outside a transaction, so what was executed stays
Rollback_keeps_changes(committed, open) == open

\* a Transaction that is dropped without commit rolls back: the file keeps
\* its committed content
Rollback(committed, open) == committed

\* .map_err(|e| { eprintln!(...); e })?  returns the error; tx is dropped
PropagateError ==
  /\ mpc = "batch_failed"
  /\ db' = Rollback(db, tx[1])
  /\ tx' = None
  /\ mret' = Err("Failed to run migration")
  /\ mpc' = "exited"
  /\ UNCHANGED <<current_version, mi, mj, runs, executed, wrote, fault, start, prev,
                 storeVars, sysVars>>

\* tx.execute(&format!("PRAGMA user_version = {}", migrations.len()), [])?;
\* the pragma writes the file header through the open transaction
SetUserVersion(committed, open, n) ==
  [db |-> committed, tx |-> [open EXCEPT !.user_version = n]]

UpdateSchemaVersion ==
  /\ mpc = "loop"
  /\ mi > Len(mlist)
  /\ LET w == SetUserVersion(db, tx[1], Len(mlist))
     IN db' = w.db /\ tx' = Some(w.tx)
  /\ wrote' = TRUE
  /\ mpc' = "commit"
  /\ UNCHANGED <<current_version, mi, mj, mret, runs, executed, fault, start, prev,
                 storeVars, sysVars>>

\* tx.commit()?; Ok(())
Commit ==
  /\ mpc = "commit"
  /\ db' = tx[1]
  /\ tx' = None
  /\ mret' = Ok(0)
  /\ mpc' = "exited"
  /\ UNCHANGED <<current_version, mi, mj, runs, executed, wrote, fault, start, prev,
                 storeVars, sysVars>>

\* the process dies in the middle of a run: the open transaction was never
\* committed, so the file holds its committed content when it is opened again
Crash ==
  /\ mpc \in {"read_version", "begin", "loop", "batch_failed", "commit"}
  /\ db' = (IF tx = None THEN db ELSE Rollback(db, tx[1]))
  /\ tx' = None
  /\ mpc' = "crashed"
  /\ UNCHANGED <<current_version, mi, mj, mret, runs, executed, wrote, fault, start,
                 prev, storeVars, sysVars>>

MigNext ==
  \/ init_db
  \/ ReadVersion
  \/ BeginTransaction
  \/ ExecuteStatement
  \/ StatementFails
  \/ PropagateError
  \/ UpdateSchemaVersion
  \/ Commit
  \/ Crash

(* ---------------- the mutex of DbState ---------------- *)

MaxClients == 2

Clients == 1 .. MaxClients

NoRequest == [op |-> "none"]

\* no handler is running
LockIdle ==
  /\ lock = 0
  /\ poisoned = FALSE
  /\ rpc = [c \in Clients |-> "idle"]
  /\ req = [c \in Clients |-> NoRequest]
  /\ rret = [c \in Clients |-> NoResult]

\* the binary as built (one migration), main past its start
SysInit ==
  /\ mlist = migrations
  /\ proc = "running"
  /\ LockIdle

vars == <<storeVars, migVars, sysVars>>

Init == StoreInit /\ MigInit /\ SysInit /\ db = DbAtVersion(0)

Next == CreateAccount \/ GetAccounts \/ UpdateAccount \/ AddTransaction \/ Return

Spec == Init /\ [][Next]_vars

MigSpecInit == StoreInit /\ MigInit /\ SysInit

MigSpec == MigSpecInit /\ [][MigNext]_vars

(* ---------------- the process (main.rs) ---------------- *)

\* the process is started on a directory without app.db; main calls neither
\* init_db nor run_migrations of db.rs
MainInit ==
  /\ StoreInit
  /\ MigInit
  /\ db = DbAtVersion(0)
  /\ mlist = migrations
  /\ proc = "start"
  /\ LockIdle

\* let db_conn = match init_db_connection() { Ok(conn) => conn, ... }: the file is
\* opened and the CREATE ... IF NOT EXISTS statements succeed; the connection is
\* managed and the three commands are registered
InitDbConnectionOk ==
  /\ proc = "start"
  /\ proc' = "running"
  /\ UNCHANGED <<storeVars, migVars, mlist, lockVars>>

\* Err(e) => { eprintln!(...); std::process::exit(1); }
InitDbConnectionFails ==
  /\ proc = "start"
  /\ proc' = "exited"
  /\ UNCHANGED <<storeVars, migVars, mlist, lockVars>>

\* .invoke_handler(generate_handler![create_account, get_accounts, update_account])
ServeCreateAccount == proc = "running" /\ CreateAccount
ServeGetAccounts == proc = "running" /\ GetAccounts
ServeUpdateAccount == proc = "running" /\ UpdateAccount
ServeAddTransaction == proc = "running" /\ AddTransaction
ServeReturn == proc = "running" /\ Return

MainNext ==
  \/ InitDbConnectionOk
  \/ InitDbConnectionFails
  \/ ServeCreateAccount
  \/ ServeGetAccounts
  \/ ServeUpdateAccount
  \/ ServeAddTransaction
  \/ ServeReturn

MainSpec == MainInit /\ [][MainNext]_vars

(* ---------------- the engine on a longer list of migrations ---------------- *)

\* at most this many migrations in the array
MaxMigrations == 2

\* the array with n entries: the script of this build, then one script per
\* file added at "Add more migration files here as needed"
MigrationList(n) ==
  [m \in 1 .. n |-> IF m <= Len(migrations) THEN migrations[m]
                    ELSE <<"table_of_migration_" \o ToString(m)>>]

\* a file on which the first v migrations of the list were applied
DbOfList(list, v) ==
  [user_version |-> v,
   schema |-> UNION {Range(list[m]) : m \in 1 .. Min(v, Len(list))}]

MigListInit ==
  /\ StoreInit
  /\ mlist \in {MigrationList(n) : n \in 0 .. MaxMigrations}
  /\ proc = "running"
  /\ LockIdle
  /\ db \in {DbOfList(mlist, v) : v \in 0 .. Len(mlist)}
  /\ tx = None
  /\ mpc = "exited"
  /\ current_version = 0
  /\ mi = 1
  /\ mj = 0
  /\ mret = NoResult
  /\ runs = 0
  /\ executed = <<>>
  /\ wrote = FALSE
  /\ fault = FALSE
  /\ start = db
  /\ prev = NoRun

MigListSpec == MigListInit /\ [][MigNext]_vars

(* ---------------- the handlers under the mutex ---------------- *)

\* the requests the threads issue
Requests ==
  {[op |-> "create_account", name |-> "Bank", account_type |-> "Asset", parent_id |-> None],
   [op |-> "create_account", name |-> "Bank", account_type |-> "asset", parent_id |-> None],
   [op |-> "create_account", name |-> "cash", account_type |-> "Asset", parent_id |-> Some(2)],
   [op |-> "get_accounts"],
   [op |-> "update_account", id |-> 1, name |-> "Cash", account_type |-> "Asset",
    parent_id |-> None, is_active |-> FALSE],
   [op |-> "update_account", id |-> 1, name |-> "Bank", account_type |-> "Asset",
    parent_id |-> None, is_active |-> TRUE]}

\* the states of a thread in which it owns the MutexGuard
Guarded == {"locked", "checked"}

\* Display of std::sync::PoisonError, the e.to_string() of get_accounts and update_account
PoisonErrorText == "poisoned lock: another task failed inside"

\* what each command returns when state.conn.lock() is Err
LockError(op) ==
  IF op = "create_account" THEN Err("Database error. Please try again.")
  ELSE Err(PoisonErrorText)

\* variant: a lock that is granted while another thread holds it
TryLock_ignores_holder(holder, flag) ==
  IF flag THEN "poisoned" ELSE "acquired"

\* variant: a lock that ignores the poison flag
TryLock_ignores_poison(holder, flag) ==
  IF holder # 0 THEN "blocked" ELSE "acquired"

\* state.conn.lock(): blocks while the mutex is held, then Err when poisoned
TryLock(holder, flag) ==
  IF holder # 0 THEN "blocked"
  ELSE IF flag THEN "poisoned"
  ELSE "acquired"

\* the part of a handler before its statement: the early returns
EarlyReturn(acc, txs, r) ==
  IF r.op = "create_account"
  THEN IF r.account_type \notin valid_types
       THEN Err("Invalid account type: " \o r.account_type
                \o ". Must be one of: Asset, Liability, Equity, Income, Expense")
       ELSE IF r.parent_id # None /\ ~ ParentExists(acc, r.parent_id[1])
       THEN Err("Parent account does not exist")
       ELSE IF NameExists(acc, r.name)
       THEN Err("An account with this name already exists")
       ELSE NoResult
  ELSE IF r.op = "update_account"
  THEN IF r.account_type \notin valid_types
       THEN Err("Invalid account type")
       ELSE IF has_transactions(txs, r.id) /\ ~ r.is_active
       THEN Err("Cannot deactivate account with transaction history")
       ELSE NoResult
  ELSE NoResult

\* the statement of a handler (INSERT, UPDATE or the SELECT of all rows) and
\* the value returned after it
Statement(acc, r) ==
  IF r.op = "create_account"
  THEN LET x == InsertAccount(acc, r.name, r.account_type, r.parent_id)
       IN IF IsOk(x.ret) THEN x
          ELSE [ret |-> Err("Failed to create account: " \o x.ret.err), accounts |-> acc]
  ELSE IF r.op = "update_account"
  THEN UpdateAccountRow(acc, r.id, r.name, r.account_type, r.parent_id, r.is_active)
  ELSE [ret |-> [list |-> get_accounts(acc)], accounts |-> acc]

\* a store with two accounts and one transaction between them
StoreWithHistory ==
  LET a == create_account(<<>>, "Cash", "Asset", None).accounts
      b == create_account(a, "Bank", "Asset", None).accounts
  IN [accounts |-> b, transactions |-> InsertTransaction(b, <<>>, 1, 2).transactions]

LockInit ==
  /\ \/ accounts = <<>> /\ transactions = <<>>
     \/ accounts = StoreWithHistory.accounts /\ transactions = StoreWithHistory.transactions
  /\ call = Idle
  /\ ret = NoResult
  /\ MigInit
  /\ db = DbAtVersion(0)
  /\ mlist = migrations
  /\ proc = "running"
  /\ LockIdle

\* the webview invokes a command: the handler starts on a thread
Invoke ==
  \E c \in Clients, r \in Requests :
    /\ rpc[c] = "idle"
    /\ r.op = "create_account"
         => Len(accounts) + Len(transactions)
              + Cardinality({d \in Clients : req[d].op = "create_account"}) < MaxRows
    /\ rpc' = [rpc EXCEPT ![c] = "called"]
    /\ req' = [req EXCEPT ![c] = r]
    /\ UNCHANGED <<lock, poisoned, rret, storeVars, migVars, mlist, proc>>

\* state.conn.lock() is Ok(conn)
AcquireLock ==
  \E c \in Clients :
    /\ rpc[c] = "called"
    /\ TryLock(lock, poisoned) = "acquired"
    /\ lock' = c
    /\ rpc' = [rpc EXCEPT ![c] = "locked"]
    /\ UNCHANGED <<poisoned, req, rret, storeVars, migVars, mlist, proc>>

\* state.conn.lock() is Err(e): the handler returns at once
LockFails ==
  \E c \in Clients :
    /\ rpc[c] = "called"
    /\ TryLock(lock, poisoned) = "poisoned"
    /\ rret' = [rret EXCEPT ![c] = LockError(req[c].op)]
    /\ rpc' = [rpc EXCEPT ![c] = "returned"]
    /\ UNCHANGED <<lock, poisoned, req, storeVars, migVars, mlist, proc>>

\* the validations and the queries before the statement; an early return drops
\* the guard
Validate ==
  \E c \in Clients :
    /\ rpc[c] = "locked"
    /\ LET e == EarlyReturn(accounts, transactions, req[c])
       IN IF IsErr(e)
          THEN /\ rret' = [rret EXCEPT ![c] = e]
               /\ rpc' = [rpc EXCEPT ![c] = "returned"]
               /\ lock' = 0
          ELSE /\ rpc' = [rpc EXCEPT ![c] = "checked"]
               /\ UNCHANGED <<lock, rret>>
    /\ UNCHANGED <<poisoned, req, storeVars, migVars, mlist, proc>>

\* the statement, then the return of its result; the guard is dropped
Execute ==
  \E c \in Clients :
    /\ rpc[c] = "checked"
    /\ LET x == Statement(accounts, req[c])
       IN /\ accounts' = x.accounts
          /\ rret' = [rret EXCEPT ![c] = x.ret]
    /\ rpc' = [rpc EXCEPT ![c] = "returned"]
    /\ lock' = 0
    /\ UNCHANGED <<poisoned, req, transactions, call, ret, migVars, mlist, proc>>

\* the caller has the result
Respond ==
  \E c \in Clients :
    /\ rpc[c] = "returned"
    /\ rpc' = [rpc EXCEPT ![c] = "idle"]
    /\ req' = [req EXCEPT ![c] = NoRequest]
    /\ rret' = [rret EXCEPT ![c] = NoResult]
    /\ UNCHANGED <<lock, poisoned, storeVars, migVars, mlist, proc>>

\* a thread panics while it owns the guard: the guard is dropped during
\* unwinding and the mutex is poisoned; the request gets no result
Panic ==
  \E c \in Clients :
    /\ rpc[c] \in Guarded
    /\ poisoned' = TRUE
    /\ lock' = 0
    /\ rpc' = [rpc EXCEPT ![c] = "idle"]
    /\ req' = [req EXCEPT ![c] = NoRequest]
    /\ UNCHANGED <<rret, storeVars, migVars, mlist, proc>>

LockNext ==
  \/ Invoke
  \/ AcquireLock
  \/ LockFails
  \/ Validate
  \/ Execute
  \/ Respond
  \/ Panic

LockSpec == LockInit /\ [][LockNext]_vars

(* ---------------- the claims ---------------- *)

\* the closed set of account types of the data model
ClosedTypeSet == {"Asset", "Liability", "Equity", "Income", "Expense"}

AccountIds(acc) == {acc[i].id : i \in 1 .. Len(acc)}
AccountNames(acc) == {acc[i].name : i \in 1 .. Len(acc)}
ReferencedIds(txs) ==
  {txs[i].debit_account_id : i \in 1 .. Len(txs)}
    \cup {txs[i].credit_account_id : i \in 1 .. Len(txs)}

\* the error kinds as the commands word them
IsInvalidAccountType(r) ==
  /\ IsErr(r)
  /\ \/ r.err = "Invalid account type"
     \/ \E t \in TypeInputs :
          r.err = "Invalid account type: " \o t
                    \o ". Must be one of: Asset, Liability, Equity, Income, Expense"
IsParentNotFound(r) == IsErr(r) /\ r.err = "Parent account does not exist"
IsDuplicateName(r) == IsErr(r) /\ r.err = "An account with this name already exists"
IsCannotDeactivateWithHistory(r) ==
  IsErr(r) /\ r.err = "Cannot deactivate account with transaction history"

\* C1: a create_account whose type is outside the closed set fails with
\* InvalidAccountType and leaves the persisted accounts exactly as they were,
\* whatever the name and the parent_id are.
C1_InvalidTypeRejected ==
  [][(call'.op = "create_account" /\ call'.account_type \notin ClosedTypeSet)
       => (IsInvalidAccountType(ret') /\ accounts' = accounts)]_vars

C1_Witness ==
  /\ call.op = "create_account"
  /\ call.account_type \notin ClosedTypeSet
  /\ call.parent_id # None
  /\ call.name \notin AccountNames(accounts)
  /\ IsInvalidAccountType(ret)
  /\ Len(accounts) >= 1

\* C2: a create_account with a valid type and a parent_id that is given but is
\* the id of no persisted account fails with ParentNotFound and leaves the
\* persisted accounts unchanged.
C2_MissingParentRejected ==
  [][(/\ call'.op = "create_account"
      /\ call'.account_type \in ClosedTypeSet
      /\ call'.parent_id # None
      /\ call'.parent_id[1] \notin AccountIds(accounts))
       => (IsParentNotFound(ret') /\ accounts' = accounts)]_vars

C2_Witness ==
  /\ call.op = "create_account"
  /\ call.account_type \in ClosedTypeSet
  /\ call.parent_id # None
  /\ call.parent_id[1] \notin AccountIds(accounts)
  /\ IsParentNotFound(ret)
  /\ Len(accounts) >= 1

\* C3: when an account named n is persisted, a create_account with the same
\* name (exact, case-sensitive), a valid type and an absent or existing parent
\* fails with DuplicateName, and every field of every persisted account is
\* unchanged.
C3_DuplicateNameRejected ==
  [][(/\ call'.op = "create_account"
      /\ call'.name \in AccountNames(accounts)
      /\ call'.account_type \in ClosedTypeSet
      /\ (call'.parent_id = None \/ call'.parent_id[1] \in AccountIds(accounts)))
       => (IsDuplicateName(ret') /\ accounts' = accounts)]_vars

C3_Witness ==
  /\ call.op = "create_account"
  /\ call.name \in AccountNames(accounts)
  /\ call.account_type \in ClosedTypeSet
  /\ call.parent_id # None
  /\ call.parent_id[1] \in AccountIds(accounts)
  /\ IsDuplicateName(ret)

\* C4: update_account with is_active = false and a valid type on an account
\* that is the debit or credit account of a persisted transaction fails with
\* CannotDeactivateWithHistory, and the account (is_active, name, type,
\* parent_id) is unchanged.
C4_NoDeactivationWithHistory ==
  [][(/\ call'.op = "update_account"
      /\ call'.account_type \in ClosedTypeSet
      /\ call'.is_active = FALSE
      /\ call'.id \in AccountIds(accounts)
      /\ call'.id \in ReferencedIds(transactions))
       => (IsCannotDeactivateWithHistory(ret') /\ accounts' = accounts)]_vars

\* the account is the credit account of the transaction
C4_Witness ==
  /\ call.op = "update_account"
  /\ call.account_type \in ClosedTypeSet
  /\ call.is_active = FALSE
  /\ call.id \in AccountIds(accounts)
  /\ \E i \in 1 .. Len(transactions) : transactions[i].credit_account_id = call.id
  /\ IsCannotDeactivateWithHistory(ret)

\* C5: after a create_account(name, type, parent_id) that returned id i, a
\* get_accounts returns exactly one record with id i and exactly one with that
\* name; the record has the given type and parent_id, balance 0.0 and
\* is_active = true; the records returned before the create are all returned
\* unchanged.
C5_CreateThenList ==
  [][(call'.op = "create_account" /\ IsOk(ret'))
       => LET l == get_accounts(accounts')
              old == get_accounts(accounts)
          IN /\ Cardinality({k \in 1 .. Len(l) : l[k].id = Some(ret'.ok)}) = 1
             /\ Cardinality({k \in 1 .. Len(l) : l[k].name = call'.name}) = 1
             /\ \A k \in 1 .. Len(l) :
                  l[k].id = Some(ret'.ok)
                    => /\ l[k].name = call'.name
                       /\ l[k].account_type = call'.account_type
                       /\ l[k].parent_id = call'.parent_id
                       /\ l[k].balance = 0
                       /\ l[k].is_active = TRUE
             /\ Len(l) = Len(old) + 1
             /\ \A k \in 1 .. Len(old) : \E m \in 1 .. Len(l) : l[m] = old[k]]_vars

\* a second account was created under an existing parent
C5_Witness ==
  /\ call.op = "create_account"
  /\ IsOk(ret)
  /\ call.parent_id # None
  /\ Len(accounts) >= 2
  /\ \E k \in 1 .. Len(accounts) :
       accounts[k].id = ret.ok /\ accounts[k].name = call.name

\* C6: a run of the migration engine that is started after a successful run
\* executes no migration script and does not write the counter: schema and
\* counter stay what the first run left, and the run succeeds.
C6_SecondRunIsNoOp ==
  prev.status = "ok"
    => /\ executed = <<>>
       /\ wrote = FALSE
       /\ tx = None
       /\ db = start
       /\ mpc \notin {"begin", "loop", "batch_failed", "commit"}
       /\ (mpc = "exited" => IsOk(mret))

\* the first run applied the initial schema, the second has returned
C6_Witness ==
  /\ prev.status = "ok"
  /\ prev.executed # <<>>
  /\ mpc = "exited"
  /\ IsOk(mret)
  /\ db.user_version = Len(migrations)

\* C7: no two persisted accounts have the same name, whatever create_account
\* and update_account calls were made; an update_account that renames an
\* account to the name of another one does not leave two accounts of that name.
C7_NamesUnique ==
  \A i, j \in 1 .. Len(accounts) : i # j => accounts[i].name # accounts[j].name

\* an update_account tried to give an account the name of another account
C7_Witness ==
  /\ call.op = "update_account"
  /\ call.account_type \in ClosedTypeSet
  /\ \E i, j \in 1 .. Len(accounts) :
       i # j /\ accounts[i].id = call.id /\ accounts[j].name = call.name
  /\ IsErr(ret)

\* C8: every persisted account whose parent_id is present has the id of a
\* persisted account as its parent_id; update_account with a parent_id that
\* names no account does not leave a dangling parent.
C8_NoDanglingParent ==
  \A i \in 1 .. Len(accounts) :
    accounts[i].parent_id # None => accounts[i].parent_id[1] \in AccountIds(accounts)

\* an update_account of an existing account named a parent that does not exist
C8_Witness ==
  /\ call.op = "update_account"
  /\ call.account_type \in ClosedTypeSet
  /\ call.id \in AccountIds(accounts)
  /\ call.parent_id # None
  /\ call.parent_id[1] \notin AccountIds(accounts)
  /\ call.name \notin {accounts[i].name : i \in {k \in 1 .. Len(accounts) : accounts[k].id # call.id}}
  /\ IsErr(ret)

\* C9: update_account with a valid type on an id that is the id of no
\* persisted account returns Ok(0) and leaves every persisted account
\* unchanged, whatever name, parent_id and is_active are.
C9_UpdateOfMissingId ==
  [][(/\ call'.op = "update_account"
      /\ call'.account_type \in ClosedTypeSet
      /\ call'.id \notin AccountIds(accounts))
       => (ret' = Ok(0) /\ accounts' = accounts)]_vars

C9_Witness ==
  /\ call.op = "update_account"
  /\ call.account_type \in ClosedTypeSet
  /\ call.id \notin AccountIds(accounts)
  /\ call.is_active = FALSE
  /\ call.parent_id # None
  /\ call.name \in AccountNames(accounts)
  /\ ret = Ok(0)

\* the migrations the counter claims are in the committed schema
CounterNotAhead(d) ==
  \A m \in 1 .. Min(d.user_version, Len(migrations)) :
    \A s \in 1 .. Len(migrations[m]) : migrations[m][s] \in d.schema

\* C10: when a migration script fails, the run returns an error, the schema
\* changes of the run's transaction are rolled back and the persisted counter
\* is what it was before the run; at no point, a crash in the middle of a run
\* included, is the persisted counter ahead of the migrations applied.
C10_FailureRollsBack ==
  /\ (fault /\ mpc = "exited") => (IsErr(mret) /\ tx = None /\ db = start)
  /\ (fault /\ mpc = "crashed") => (tx = None /\ db = start)
  /\ CounterNotAhead(db)

\* the script failed after some of its statements had been executed
C10_Witness ==
  /\ fault
  /\ mpc = "exited"
  /\ mj >= 1
  /\ IsErr(mret)
  /\ start.user_version = 0

\* C11: when the persisted counter is greater than the highest known migration
\* version, the engine returns success, executes no script and leaves counter
\* and schema as they are.
C11_NewerCounterLeftAlone ==
  (runs >= 1 /\ start.user_version > Len(migrations))
    => /\ executed = <<>>
       /\ wrote = FALSE
       /\ tx = None
       /\ db = start
       /\ mpc \notin {"begin", "loop", "batch_failed", "commit"}
       /\ (mpc = "exited" => IsOk(mret))

\* a run on a file of a newer build has returned
C11_Witness ==
  /\ runs >= 1
  /\ start.user_version > Len(migrations)
  /\ mpc = "exited"
  /\ IsOk(mret)
  /\ db.user_version > Len(migrations)

\* C15 as claimed: no account that is the debit or credit account of a
\* transaction has is_active = false, in whatever order update_account calls
\* and transaction insertions happen.
C15_ReferencedAccountsActive ==
  \A i \in 1 .. Len(accounts) :
    accounts[i].id \in ReferencedIds(transactions) => accounts[i].is_active = 1

\* C15 (amended): an account that is the debit or credit account of a
\* transaction and is active is never made inactive.
C15_ReferencedNeverDeactivated ==
  [][\A i \in 1 .. Len(accounts) :
       (accounts[i].id \in ReferencedIds(transactions) /\ accounts[i].is_active = 1)
         => accounts'[i].is_active = 1]_vars

\* an update_account tried to deactivate the active debit account of a
\* transaction whose credit account had been deactivated before the insertion
C15_Witness ==
  /\ call.op = "update_account"
  /\ call.account_type \in ClosedTypeSet
  /\ call.is_active = FALSE
  /\ \E i \in 1 .. Len(accounts) :
       /\ accounts[i].id = call.id
       /\ accounts[i].is_active = 1
       /\ \E t \in 1 .. Len(transactions) :
            /\ transactions[t].debit_account_id = call.id
            /\ \E j \in 1 .. Len(accounts) :
                 /\ accounts[j].id = transactions[t].credit_account_id
                 /\ accounts[j].is_active = 0
  /\ IsErr(ret)

\* the account that parent_id of the account with this id names, or None
ParentOf(acc, id) ==
  IF \E i \in 1 .. Len(acc) : acc[i].id = id
  THEN acc[CHOOSE i \in 1 .. Len(acc) : acc[i].id = id].parent_id
  ELSE None

\* the ancestors of id, following parent_id at most n times
RECURSIVE AncestorsWithin(_, _, _)
AncestorsWithin(acc, id, n) ==
  IF n = 0 \/ ParentOf(acc, id) = None THEN {}
  ELSE {ParentOf(acc, id)[1]} \cup AncestorsWithin(acc, ParentOf(acc, id)[1], n - 1)

\* C16: the parent_id references form a forest: no account is its own parent
\* and following parent_id from an account never returns to it.
C16_ParentForest ==
  \A i \in 1 .. Len(accounts) :
    accounts[i].id \notin AncestorsWithin(accounts, accounts[i].id, Len(accounts))

\* C17: every persisted transaction names two distinct accounts that are both
\* persisted; an insertion with debit = credit or with an id that names no
\* account is rejected and leaves the transactions unchanged.
C17_TransactionsWellFormed ==
  [][/\ \A t \in 1 .. Len(transactions') :
          /\ transactions'[t].debit_account_id # transactions'[t].credit_account_id
          /\ transactions'[t].debit_account_id \in AccountIds(accounts')
          /\ transactions'[t].credit_account_id \in AccountIds(accounts')
     /\ (/\ call'.op = "insert_transaction"
         /\ \/ call'.debit = call'.credit
            \/ call'.debit \notin AccountIds(accounts)
            \/ call'.credit \notin AccountIds(accounts))
          => (IsErr(ret') /\ transactions' = transactions)]_vars

\* an insertion that names one existing account on both sides was rejected
C17_Witness ==
  /\ call.op = "insert_transaction"
  /\ call.debit = call.credit
  /\ call.debit \in AccountIds(accounts)
  /\ IsErr(ret)
  /\ transactions = <<>>

EngineTexts == {"UNIQUE constraint failed: accounts.name",
                "FOREIGN KEY constraint failed",
                "CHECK constraint failed"}

\* C20: an error that a command returns for a resource error never carries
\* the storage engine's own error text.
C20_NoEngineText ==
  (call.op \in {"create_account", "get_accounts", "update_account"} /\ IsErr(ret))
    => /\ ret.err \notin EngineTexts
       /\ ret.err \notin {"Failed to create account: " \o e : e \in EngineTexts}

AccountCommands == {"create_account", "get_accounts", "update_account"}

\* C19: a create_account, get_accounts or update_account request runs only
\* after the migration engine has completed schema setup successfully; when
\* schema setup fails the process exits and serves no account operation.
C19_MigrationBeforeRequests ==
  /\ call.op \in AccountCommands
       => (proc = "running" /\ runs >= 1 /\ mpc = "exited" /\ IsOk(mret))
  /\ proc = "exited" => (call = Idle /\ accounts = <<>>)

\* the whole command run on a store in one piece
Atomic(acc, txs, r) ==
  IF r.op = "create_account"
  THEN create_account(acc, r.name, r.account_type, r.parent_id)
  ELSE IF r.op = "update_account"
  THEN update_account(acc, txs, r.id, r.name, r.account_type, r.parent_id, r.is_active)
  ELSE [ret |-> [list |-> get_accounts(acc)], accounts |-> acc]

Holders == {c \in Clients : rpc[c] \in {"locked", "checked"}}

\* C12: at most one request at a time holds the store connection, the reads
\* and writes of two requests never interleave (a request's result and its
\* effect on the store are those of the whole command run in one piece, and
\* the store changes only in the step of the request holding the lock), and
\* every request that returns, with Ok or with any error, has released the
\* lock.
C12_ExclusiveAndReleased ==
  [][/\ Cardinality(Holders) <= 1
     /\ \A c \in Clients : (c \in Holders) <=> (lock = c)
     /\ (accounts' # accounts \/ transactions' # transactions)
          => \E c \in Clients : lock = c /\ rpc[c] = "checked" /\ rpc'[c] = "returned"
     /\ \A c \in Clients :
          (c \in Holders /\ rpc'[c] = "returned")
            => /\ rret'[c] = Atomic(accounts, transactions, req[c]).ret
               /\ accounts' = Atomic(accounts, transactions, req[c]).accounts
               /\ lock' = 0]_vars

\* a request has returned a storage fault and another request holds the lock
C12_Witness ==
  \E c, d \in Clients :
    /\ rpc[c] = "returned"
    /\ rret[c] = Err(UniqueFailed)
    /\ rpc[d] = "checked"
    /\ lock = d

IsLockUnavailable(r) ==
  /\ IsErr(r)
  /\ r.err \in {"Database error. Please try again.",
                "poisoned lock: another task failed inside"}

\* C13: when the mutex is poisoned, a request of any of the three commands
\* that reaches the lock returns an error of the lock-unavailable kind, which
\* is none of the validation errors; the process keeps running and the store
\* is neither read nor written (the request never owns the connection).
C13_PoisonedLockReported ==
  [][/\ \A c \in Clients :
          (poisoned /\ rpc[c] = "called" /\ rpc'[c] # "called")
            => /\ rpc'[c] = "returned"
               /\ IsLockUnavailable(rret'[c])
               /\ ~ IsInvalidAccountType(rret'[c])
               /\ ~ IsParentNotFound(rret'[c])
               /\ ~ IsDuplicateName(rret'[c])
               /\ ~ IsCannotDeactivateWithHistory(rret'[c])
               /\ accounts' = accounts
               /\ transactions' = transactions
               /\ proc' = "running"
     /\ poisoned' => \A c \in Clients : rpc'[c] \notin {"locked", "checked"}]_vars

\* with the mutex poisoned, create_account and one of the other two commands
\* have returned their lock errors
C13_Witness ==
  /\ poisoned
  /\ \E c, d \in Clients :
       /\ req[c].op = "create_account"
       /\ rret[c] = Err("Database error. Please try again.")
       /\ req[d].op \in {"get_accounts", "update_account"}
       /\ rret[d] = Err("poisoned lock: another task failed inside")
====
